---- MODULE Spec2Model ----
(***************************************************************************)
(* OrcaFlex external function OffsetControl (ControlScript-v1.py).         *)
(*                                                                         *)
(* The host creates one OffsetControl instance per controlled model        *)
(* object, calls Initialise on each, then calls Calculate on each object   *)
(* in every simulation time step (first with NewTimeStep true, possibly    *)
(* again with NewTimeStep false during solver iteration) and Finalise on   *)
(* reset.  The cam instance owns a PySimpleGUI window with two sliders and *)
(* shares the slider values with the support instance through the host's   *)
(* Workspace dictionary.                                                   *)
(*                                                                         *)
(* Numbers.  The source computes in Python floats (IEEE 754 doubles).  A   *)
(* double is modelled by its sign and its magnitude, the magnitude being   *)
(* the whole number of units of 2^-84 it is worth, written in four limbs   *)
(* of 24 bits, the lowest first: 1.0 is <<0, 0, 0, 4096>>.  Sums and       *)
(* differences are formed exactly and rounded to 53 significant bits, to   *)
(* nearest, ties to even, as the hardware does; products and quotients     *)
(* likewise.  The doubles represented are 0 and those from 2^-31 up to     *)
(* 4096 in magnitude, and the differences of such.                         *)
(*                                                                         *)
(* Times.  SimulationTime is only compared with StartTime; it is counted   *)
(* in whole units TU of 0.005 s (200 per s).                               *)
(***************************************************************************)
EXTENDS Integers, Sequences, FiniteSets, TLC

VARIABLES
    globals,     \* the names bound in the globals of the script's module
    General,     \* info.Model['General']: the model's ImplicitConstantTimeStep
    self,        \* Name -> the attributes of that object's OffsetControl instance
    Workspace,   \* info.Workspace: the dictionary shared by the model objects
    Position,    \* Name -> info.StructValue.Position[0] of that object
    window,      \* the PySimpleGUI window: state, slider values, pending events
    time,        \* info.SimulationTime of the current time step
    called,      \* the objects whose Calculate already ran in the current time step
    finalised,   \* the objects whose Finalise ran
    run,         \* "ok", or "exit" after sys.exit(), or "error" after an exception
    info,        \* the info argument of the last invocation
    track,       \* history: Name -> the active steps taken towards the present target
    polled       \* history: what the last Read returned and who was called before it

vars == <<globals, General, self, Workspace, Position, window, time, called,
          finalised, run, info, track, polled>>

----------------------------------------------------------------------------
(* Bounds *)

\* The operator moves each slider between its minimum and MaxSlider
\* resolution steps above it.
MaxSlider == 2
\* The model file places each structure at 0 or at MaxStart times 0.0001 m.
MaxStart == 1
\* The ImplicitConstantTimeStep of the model (TU).
MaxTimeStep == 6
\* The simulation starts MaxIdleSteps time steps before StartTime.
MaxIdleSteps == 1
\* The simulation ends MaxActive time steps after StartTime.
MaxActive == 3
\* Events the window holds until the next Read.
MaxQueue == 1
\* The history counts at most MaxCount steps towards one target.
MaxCount == 8
\* ImplicitConstantTimeStep of a coarse model (TU): 0.1 s
CoarseTimeStep == 20

----------------------------------------------------------------------------
(* Python floats *)

\* A limb holds 24 bits, a digit 12; a double has 53 significant bits; the
\* magnitudes count units of 2^-84.
Limb == 16777216
Digit == 4096
Precision == 53
FracBits == 84

\* The number of bits of x, for x < 2^24
RECURSIVE Bits(_)
Bits(x) ==
    IF x = 0 THEN 0
    ELSE IF x >= Digit THEN 12 + Bits(x \div Digit)
    ELSE 1 + Bits(x \div 2)

MagZero == <<0, 0, 0, 0>>

\* The highest limb of a that is not 0, or the lowest
TopLimb(a) == IF a[4] > 0 THEN 4 ELSE IF a[3] > 0 THEN 3 ELSE IF a[2] > 0 THEN 2 ELSE 1

\* The number of bits of the magnitude a
BitLen(a) == 24 * (TopLimb(a) - 1) + Bits(a[TopLimb(a)])

\* -1, 0, 1 as a < b, a = b, a > b
MagCmp(a, b) ==
    IF a[4] # b[4] THEN (IF a[4] < b[4] THEN -1 ELSE 1)
    ELSE IF a[3] # b[3] THEN (IF a[3] < b[3] THEN -1 ELSE 1)
    ELSE IF a[2] # b[2] THEN (IF a[2] < b[2] THEN -1 ELSE 1)
    ELSE IF a[1] # b[1] THEN (IF a[1] < b[1] THEN -1 ELSE 1)
    ELSE 0

\* Limb i of a + b, given the carry into it, with the carry out of it on top
AddLimb(a, b, i, carry) == a[i] + b[i] + (carry \div Limb)

MagAdd(a, b) ==
    LET s1 == AddLimb(a, b, 1, 0)
        s2 == AddLimb(a, b, 2, s1)
        s3 == AddLimb(a, b, 3, s2)
        s4 == AddLimb(a, b, 4, s3)
    IN  <<s1 % Limb, s2 % Limb, s3 % Limb, s4 % Limb>>

\* Limb i of a - b, given the limb below it, negative if it borrows
SubLimb(a, b, i, below) == a[i] - b[i] - (IF below < 0 THEN 1 ELSE 0)

\* a - b for a >= b
MagSub(a, b) ==
    LET s1 == SubLimb(a, b, 1, 0)
        s2 == SubLimb(a, b, 2, s1)
        s3 == SubLimb(a, b, 3, s2)
        s4 == SubLimb(a, b, 4, s3)
    IN  <<s1 % Limb, s2 % Limb, s3 % Limb, s4 % Limb>>

\* Limb i of 2^d, and 2^d, for 0 <= d < 96
PowLimb(d, i) == IF i = d \div 24 + 1 THEN 2^(d % 24) ELSE 0

Pow(d) == <<PowLimb(d, 1), PowLimb(d, 2), PowLimb(d, 3), PowLimb(d, 4)>>

\* Limb i of a without its bits below bit d, and a without them
TruncLimb(a, d, i) ==
    IF i < d \div 24 + 1 THEN 0
    ELSE IF i = d \div 24 + 1 THEN a[i] - (a[i] % 2^(d % 24))
    ELSE a[i]

Trunc(a, d) == <<TruncLimb(a, d, 1), TruncLimb(a, d, 2), TruncLimb(a, d, 3), TruncLimb(a, d, 4)>>

\* Bit d of a is set
Bit(a, d) == (a[d \div 24 + 1] \div 2^(d % 24)) % 2 = 1

\* To nearest, ties to even: c compares the part dropped with half a unit
\* of the last place kept, tie says where a half goes up.
RoundsUp(c, tie) == c > 0 \/ (c = 0 /\ tie)

\* a rounded to a multiple of 2^d, t being a without its bits below bit d
RoundTo(a, sticky, d, t) ==
    IF RoundsUp(MagCmp(MagSub(a, t), Pow(d - 1)), sticky \/ Bit(a, d))
    THEN MagAdd(t, Pow(d))
    ELSE t

RoundAt(a, sticky, d) == IF d <= 0 THEN a ELSE RoundTo(a, sticky, d, Trunc(a, d))

\* a rounded to Precision significant bits, to nearest, ties to even; sticky
\* says that the exact value has a part below the lowest bit of a.
MagRound(a, sticky) == RoundAt(a, sticky, BitLen(a) - Precision)

\* The double of sign neg and magnitude mag; there is one zero.
Float(neg, mag) == [neg |-> neg /\ mag # MagZero, mag |-> mag]

FZero == Float(FALSE, MagZero)

\* float(n) for a whole number n, |n| < 4096
FromInt(n) == Float(n < 0, <<0, 0, 0, (IF n < 0 THEN -n ELSE n) * Digit>>)

FNeg(x) == Float(~x.neg, x.mag)

\* abs(x)
FAbs(x) == Float(FALSE, x.mag)

\* numpy.sign(x), as -1, 0 or 1
FSign(x) == IF x.mag = MagZero THEN 0 ELSE IF x.neg THEN -1 ELSE 1

\* -1, 0, 1 as x < y, x = y, x > y
FCmp(x, y) ==
    IF x.neg # y.neg THEN (IF x.neg THEN -1 ELSE 1)
    ELSE IF x.neg THEN MagCmp(y.mag, x.mag) ELSE MagCmp(x.mag, y.mag)

FLess(x, y) == FCmp(x, y) < 0

FLeq(x, y) == FCmp(x, y) <= 0

\* x + y and x - y as real numbers, not rounded
ExactAdd(x, y) ==
    IF x.neg = y.neg THEN Float(x.neg, MagAdd(x.mag, y.mag))
    ELSE IF MagCmp(x.mag, y.mag) >= 0 THEN Float(x.neg, MagSub(x.mag, y.mag))
    ELSE Float(y.neg, MagSub(y.mag, x.mag))

ExactSub(x, y) == ExactAdd(x, FNeg(y))

\* The double nearest to x
FRound(x) == Float(x.neg, MagRound(x.mag, FALSE))

\* x + y and x - y in floating point
FAdd(x, y) == FRound(ExactAdd(x, y))

FSub(x, y) == FRound(ExactSub(x, y))

\* x * s in floating point for s = -1.0, 0.0 or 1.0
FTimesSign(x, s) == IF s = 0 THEN FZero ELSE IF s < 0 THEN FNeg(x) ELSE x

\* The magnitude as 8 digits, the highest first, and back
Digits(a) ==
    <<a[4] \div Digit, a[4] % Digit, a[3] \div Digit, a[3] % Digit,
      a[2] \div Digit, a[2] % Digit, a[1] \div Digit, a[1] % Digit>>

Undigits(g) ==
    <<g[7] * Digit + g[8], g[5] * Digit + g[6],
      g[3] * Digit + g[4], g[1] * Digit + g[2]>>

\* The double for the magnitude hi with a part below its lowest bit if
\* sticky.  A result with fewer bits than a double has that is not exact
\* lies below 2^-31: the record it gives is no double.
RoundDigits(neg, hi, sticky) ==
    IF BitLen(hi) > Precision THEN Float(neg, MagRound(hi, sticky))
    ELSE IF ~sticky THEN Float(neg, hi)
    ELSE [neg |-> neg, mag |-> <<>>]

\* Long division of the digits g by d, 0 < d < 2^19, from digit i on: the
\* digits of the quotient and the remainder
RECURSIVE DivDigits(_, _, _, _, _)
DivDigits(g, d, i, rem, acc) ==
    IF i > Len(g) THEN <<acc, rem>>
    ELSE LET cur == rem * Digit + g[i]
         IN  DivDigits(g, d, i + 1, cur % d, Append(acc, cur \div d))

\* x / d in floating point for a whole number d, 0 < d < 2^19
FDivInt(x, d) ==
    LET qr == DivDigits(Digits(x.mag), d, 1, 0, <<>>)
    IN  RoundDigits(x.neg, Undigits(qr[1]), qr[2] # 0)

\* The sum of a[i] * b[k - i] over the digits i from i to hi, the digits
\* counted from 0 at the lowest
RECURSIVE Column(_, _, _, _, _, _)
Column(a, b, k, i, hi, acc) ==
    IF i > hi THEN acc
    ELSE Column(a, b, k, i + 1, hi, acc + a[8 - i] * b[8 - (k - i)])

\* The 16 digits of the product of the digits a and b, the highest first
RECURSIVE Product(_, _, _, _, _)
Product(a, b, k, carry, acc) ==
    IF k > 15 THEN acc
    ELSE LET lo == IF k > 7 THEN k - 7 ELSE 0
             hi == IF k > 7 THEN 7 ELSE k
             s  == (IF k > 14 THEN 0 ELSE Column(a, b, k, lo, hi, 0)) + carry
         IN  Product(a, b, k + 1, s \div Digit, <<s % Digit>> \o acc)

\* x * y in floating point.  The product counts units of 2^-168: its
\* digits 2 to 9 count units of 2^-84.
FMul(x, y) ==
    LET p == Product(Digits(x.mag), Digits(y.mag), 0, 0, <<>>)
    IN  RoundDigits(x.neg # y.neg, Undigits(SubSeq(p, 2, 9)),
                    SubSeq(p, 10, 16) # <<0, 0, 0, 0, 0, 0, 0>>)

\* The float literal n / d written in decimal: the double nearest to it
Dec(n, d) == FDivInt(FromInt(n), d)

----------------------------------------------------------------------------
(* Configuration set by Initialise *)

\* 1 s, in TU
StartTime == 200
OffsetMaster == "ShaftOffset-Controlled"
SupportMaster == "MoveSupport-Controlled"
ScaleMax == <<FromInt(150), FromInt(3)>>
ScaleMin == <<FZero, FZero>>
RateMaxList == <<Dec(2, 100), Dec(30, 100)>>
ScaleRes == <<FromInt(1), Dec(1, 100)>>

Names == {OffsetMaster, SupportMaster}

\* A model object of another name that is given the same external function.
OtherName == "Other-Controlled"

\* x / 1000
Div1000(x) == FDivInt(x, 1000)

\* obj.a = v
SetAttr(obj, a, v) == (a :> v) @@ obj

HasAttr(obj, a) == a \in DOMAIN obj

NoAttrs == [x \in {} |-> 0]

\* The values a slider can take are ScaleMin .. ScaleMax in steps of ScaleRes:
\* SliderValue(key, k) is the value k steps above ScaleMin, which the slider
\* reports as the double nearest to the decimal it shows.  The operator uses
\* ScaleMin and the value MaxSlider steps above it.
SliderIndex(key) == IF key = "cam" THEN 1 ELSE 2

SliderValue(key, k) == IF key = "cam" THEN FromInt(k) ELSE Dec(k, 100)

SliderValues(key) ==
    {v \in {SliderValue(key, k) : k \in {0, MaxSlider}} :
        FLeq(v, ScaleMax[SliderIndex(key)])}

\* A time of ts TU as a float of seconds
Seconds(ts) == Dec(5 * ts, 1000)

TimeSteps == {MaxTimeStep}

\* The places of the structures in the model file (m)
Starts == {FZero, Dec(MaxStart, 10000)}

\* The script imports PySimpleGUI, sys and numpy (lines 11-13) and no
\* OrcFxAPI: the name OrcFxAPI is bound in the script's globals only when
\* the host has put it there.
Hosts == {{}, {"OrcFxAPI"}}

----------------------------------------------------------------------------
(* The state after the host has constructed the objects *)

\* The script's globals are one of hosts; the model has the objects objs,
\* each placed at one of starts, and one of the time steps steps.
InitIn(hosts, objs, steps, starts) ==
    /\ globals \in hosts
    /\ General \in {[ImplicitConstantTimeStep |-> Seconds(ts), ticks |-> ts] : ts \in steps}
    /\ self = [n \in objs |-> NoAttrs]
    /\ Workspace = NoAttrs
    /\ Position \in [objs -> starts]
    /\ window = [state |-> "none", values |-> NoAttrs, events |-> <<>>]
    /\ time = StartTime - MaxIdleSteps * General.ticks
    /\ called = {}
    /\ finalised = {}
    /\ run = "ok"
    /\ info = [call |-> "none", Name |-> "", NewTimeStep |-> FALSE]
    /\ track = [n \in objs |-> [steps |-> 0, first |-> FZero, within |-> FALSE]]
    /\ polled = [event |-> "", values |-> NoAttrs, before |-> {}]

InitFrom(objs, steps, starts) == InitIn(Hosts, objs, steps, starts)

InitWith(objs, steps) == InitFrom(objs, steps, Starts)

Init == InitWith(Names, TimeSteps)

\* The objects of the model
Objects == DOMAIN self

----------------------------------------------------------------------------
(* Initialise *)

\* Line 20 evaluates the global name OrcFxAPI: NameError when it is not bound.
NameError(name) == name \notin globals

\* The attributes Initialise sets on every instance (lines 20-35).
InitialiseCommon(obj) ==
    LET o1 == SetAttr(obj, "periodNow", "pnInstantaneousValue")
        o2 == SetAttr(o1, "StartTime", StartTime)
    IN  SetAttr(o2, "TimeStep", General.ImplicitConstantTimeStep)

\* The control settings of role i: 1 the cam (lines 38-44), 2 the support
\* (lines 47-53).  maxOffset and TargetOffset are in metres.
InitialiseRole(obj, i) ==
    LET o1 == SetAttr(obj, "RateMax", RateMaxList[i])
        o2 == SetAttr(o1, "RateStep", FMul(o1.RateMax, o1.TimeStep))
        o3 == SetAttr(o2, "maxOffset",
                      IF i = 1 THEN Div1000(ScaleMax[1]) ELSE ScaleMax[2])
        o4 == SetAttr(o3, "TargetOffset",
                      IF i = 1 THEN Div1000(ScaleMin[1]) ELSE ScaleMin[2])
    IN  SetAttr(o4, "TargetOffsetScale", FZero)

\* gui.Window("slider GUI", layout): both sliders at their default value.
NewWindow ==
    [state  |-> "created",
     values |-> [key \in {"cam", "support"} |-> ScaleMin[SliderIndex(key)]],
     events |-> <<>>]

\* Variant of CreatesWindow: every instance creates a window.
CreatesWindowAlways(name) == TRUE

\* Line 57: the GUI is triggered once, by the cam object.
CreatesWindow(name) == name = OffsetMaster

Initialise(n) ==
    /\ run = "ok"
    /\ ~HasAttr(self[n], "StartTime")
    /\ IF NameError("OrcFxAPI")
       THEN /\ run' = "error"
            /\ UNCHANGED <<self, Workspace, window>>
       ELSE LET o0 == InitialiseCommon(self[n])
                o1 == IF n = OffsetMaster THEN InitialiseRole(o0, 1) ELSE o0
                w1 == IF n = OffsetMaster
                      THEN SetAttr(Workspace, "camdata", o1.TargetOffsetScale)
                      ELSE Workspace
                o2 == IF n = SupportMaster THEN InitialiseRole(o1, 2) ELSE o1
                w2 == IF n = SupportMaster
                      THEN SetAttr(w1, "supportdata", o2.TargetOffsetScale)
                      ELSE w1
                o3 == IF CreatesWindow(n) THEN SetAttr(o2, "window", TRUE) ELSE o2
            IN  /\ self' = [self EXCEPT ![n] = o3]
                /\ Workspace' = w2
                /\ window' = IF CreatesWindow(n) THEN NewWindow ELSE window
                /\ run' = run
    /\ info' = [call |-> "Initialise", Name |-> n, NewTimeStep |-> FALSE]
    /\ UNCHANGED <<globals, General, Position, time, called, finalised, track, polled>>

Initialised == \A n \in Objects : HasAttr(self[n], "StartTime")

----------------------------------------------------------------------------
(* The operator at the window *)

\* The operator drags slider key to v: the slider holds v, an event named key
\* waits for the Read (enable_events=True, lines 61-65).
Moved(w, key, v) == [w EXCEPT !.values[key] = v, !.events = Append(@, key)]

\* An event named 'Exit' waits for the Read.
Exited(w) == [w EXCEPT !.events = Append(@, "Exit")]

\* The operator closes the window: every Read from now on returns None.
Closed(w) == [w EXCEPT !.state = "closed", !.events = <<>>]

\* What the operator can do while the window is on screen and the process runs.
CanOperate ==
    /\ run = "ok"
    /\ window.state = "shown"
    /\ Len(window.events) < MaxQueue

MoveSlider(key, v) ==
    /\ CanOperate
    /\ v # window.values[key]
    /\ window' = Moved(window, key, v)
    /\ UNCHANGED <<globals, General, self, Workspace, Position, time, called,
                   finalised, run, info, track, polled>>

\* The layout of lines 59-66 has no element named 'Exit'; line 81 tests for it.
ExitEvent ==
    /\ CanOperate
    /\ window' = Exited(window)
    /\ UNCHANGED <<globals, General, self, Workspace, Position, time, called,
                   finalised, run, info, track, polled>>

CloseWindow ==
    /\ run = "ok"
    /\ window.state = "shown"
    /\ window' = Closed(window)
    /\ UNCHANGED <<globals, General, self, Workspace, Position, time, called,
                   finalised, run, info, track, polled>>

\* The first Read puts the window on screen.
Shown(w) == IF w.state = "created" THEN [w EXCEPT !.state = "shown"] ELSE w

\* The slider movements there are: the slider and its new value
SliderMoves ==
    UNION {{<<key, v>> : v \in SliderValues(key)} : key \in {"cam", "support"}}

\* What the operator does to the window w on screen while a Read waits for an
\* event: the kinds of things are acts, a subset of "move", "exit", "close".
During(w, acts) ==
    {Moved(w, kv[1], kv[2]) :
        kv \in {m \in SliderMoves : "move" \in acts /\ m[2] # w.values[m[1]]}}
    \cup {Exited(w) : a \in acts \cap {"exit"}}
    \cup {Closed(w) : a \in acts \cap {"close"}}

Acts == {"move", "exit", "close"}

\* window.Read(timeout=10) (line 79) returns at once when the window is
\* closed or an event is waiting.  Otherwise it waits, for 10 ms at most, with
\* the window on screen: the windows it may find when it stops waiting.
Waited(w, acts) ==
    IF w.state = "closed" \/ w.events # <<>>
    THEN {w}
    ELSE {Shown(w)} \cup During(Shown(w), acts)

\* What window.Read(timeout=10) returns once it has stopped waiting: the
\* event, the slider values and the window afterwards.
Read(w) ==
    IF w.state = "closed"
    THEN [event |-> "None", values |-> w.values, window |-> w]
    ELSE IF w.events # <<>>
    THEN [event  |-> Head(w.events), values |-> w.values,
          window |-> [w EXCEPT !.state = "shown", !.events = Tail(@)]]
    ELSE [event  |-> "__TIMEOUT__", values |-> w.values,
          window |-> [w EXCEPT !.state = "shown"]]

----------------------------------------------------------------------------
(* Calculate *)

\* Variant of NotNewTimeStep: the test of line 73 is missing.
NotNewTimeStepIgnored(NewTimeStep) == FALSE

\* Line 73: only run for new time steps.
NotNewTimeStep(NewTimeStep) == ~NewTimeStep

\* Variant of ExitSelected: only the 'Exit' event ends the run.
ExitSelectedNotNone(event) == event \in {"Exit"}

\* Line 81: exit selected on the window, or the window closed.
ExitSelected(event) == event \in {"None", "Exit"}

\* Variant of Record: a 'support' event records the value of the cam slider.
RecordWrongValue(ws, event, values) ==
    IF event = "cam" THEN SetAttr(ws, "camdata", values["cam"])
    ELSE IF event = "support" THEN SetAttr(ws, "supportdata", values["cam"])
    ELSE ws

\* Variant of Record: a 'support' event is not recorded.
RecordCamOnly(ws, event, values) ==
    IF event = "cam" THEN SetAttr(ws, "camdata", values["cam"]) ELSE ws

\* Lines 84-88: record the slider the event names.
Record(ws, event, values) ==
    IF event # "None"
    THEN LET w1 == IF event = "cam"
                   THEN SetAttr(ws, "camdata", values["cam"])
                   ELSE ws
         IN  IF event = "support"
             THEN SetAttr(w1, "supportdata", values["support"])
             ELSE w1
    ELSE ws

\* Variant of Target: the support's slider value is divided by 1000 as well.
TargetBothScaled(obj, name, ws) ==
    LET o1 == IF name = OffsetMaster
              THEN LET a == SetAttr(obj, "TargetOffsetScale", ws["camdata"])
                   IN  SetAttr(a, "TargetOffset", Div1000(a.TargetOffsetScale))
              ELSE obj
    IN  IF name = SupportMaster
        THEN LET b == SetAttr(o1, "TargetOffsetScale", ws["supportdata"])
             IN  SetAttr(b, "TargetOffset", Div1000(b.TargetOffsetScale))
        ELSE o1

\* Lines 91-96: the target of the object, in metres.
Target(obj, name, ws) ==
    LET o1 == IF name = OffsetMaster
              THEN LET a == SetAttr(obj, "TargetOffsetScale", ws["camdata"])
                   IN  SetAttr(a, "TargetOffset", Div1000(a.TargetOffsetScale))
              ELSE obj
    IN  IF name = SupportMaster
        THEN LET b == SetAttr(o1, "TargetOffsetScale", ws["supportdata"])
             IN  SetAttr(b, "TargetOffset", b.TargetOffsetScale)
        ELSE o1

\* Variant of BeforeStart: the test of line 99 is missing.
BeforeStartIgnored(obj, SimulationTime) == FALSE

\* Line 99: only start after the specified time.
BeforeStart(obj, SimulationTime) == SimulationTime < obj.StartTime

\* Lines 104-106: the position error from the target and its direction.
Error(obj, pos) ==
    LET o1 == SetAttr(obj, "PositionLast", pos)
        o2 == SetAttr(o1, "PositionError", FSub(o1.PositionLast, o1.TargetOffset))
    IN  SetAttr(o2, "ErrorDir", FSign(o2.PositionError))

\* Variant of PositionNew: no rate cap, the position goes to the target at once.
PositionNewUncapped(obj, name) == FSub(obj.PositionLast, obj.PositionError)

\* Variant of PositionNew: the rate-limited step has half the length.
PositionNewSlow(obj, name) ==
    IF FLess(obj.RateStep, FAbs(obj.PositionError))
    THEN FSub(obj.PositionLast, FTimesSign(FDivInt(obj.RateStep, 2), obj.ErrorDir))
    ELSE IF name = SupportMaster
         THEN obj.PositionLast
         ELSE FSub(obj.PositionLast, FTimesSign(obj.PositionError, obj.ErrorDir))

\* Variant of PositionNew: the support is not told apart and takes the last
\* part of the way like the cam.
PositionNewNoHold(obj, name) ==
    IF FLess(obj.RateStep, FAbs(obj.PositionError))
    THEN FSub(obj.PositionLast, FTimesSign(obj.RateStep, obj.ErrorDir))
    ELSE FSub(obj.PositionLast, FTimesSign(obj.PositionError, obj.ErrorDir))

\* Variant of PositionNew: a full step is taken every time, downwards unless
\* the position is below the target.
PositionNewBangBang(obj, name) ==
    FSub(obj.PositionLast,
         FTimesSign(obj.RateStep, IF obj.PositionError.neg THEN -1 ELSE 1))

\* Lines 108-113: the position change required for the time step.
PositionNew(obj, name) ==
    IF FLess(obj.RateStep, FAbs(obj.PositionError))
    THEN FSub(obj.PositionLast, FTimesSign(obj.RateStep, obj.ErrorDir))
    ELSE IF name = SupportMaster
         THEN obj.PositionLast
         ELSE FSub(obj.PositionLast, FTimesSign(obj.PositionError, obj.ErrorDir))

\* What one invocation of Calculate leaves behind (lines 70-116).
Outcome(obj, ws, pos, w, r) ==
    [self |-> obj, Workspace |-> ws, Position |-> pos, window |-> w, run |-> r]

\* Calculate of the object name on the instance obj, the workspace ws and the
\* position pos; w is the window as the Read of line 79 finds it when it
\* stops waiting.
CalculateOutcome(name, NewTimeStep, SimulationTime, obj, ws, pos, w) ==
    IF NotNewTimeStep(NewTimeStep)
    THEN Outcome(obj, ws, pos, w, "ok")
    ELSE
    LET polls == name = OffsetMaster
        rd    == Read(w)
        w1    == IF polls THEN rd.window ELSE w
    IN  IF polls /\ ExitSelected(rd.event)
        THEN Outcome(obj, ws, pos, w1, "exit")
        ELSE
        LET ws1 == IF polls THEN Record(ws, rd.event, rd.values) ELSE ws
            o1  == Target(obj, name, ws1)
        IN  IF BeforeStart(o1, SimulationTime)
            THEN Outcome(o1, ws1, pos, w1, "ok")
            ELSE IF ~HasAttr(o1, "TargetOffset")
            THEN \* line 104 assigns, line 105 raises AttributeError
                 Outcome(SetAttr(o1, "PositionLast", pos), ws1, pos, w1, "error")
            ELSE LET o2 == Error(o1, pos)
                 IN  Outcome(o2, ws1, PositionNew(o2, name), w1, "ok")

\* Whether this invocation of Calculate reaches the Read of line 79
Polls(name, NewTimeStep) == ~NotNewTimeStep(NewTimeStep) /\ name = OffsetMaster

\* The host calls Calculate of object n: the first call in a time step has
\* NewTimeStep true, the calls that follow in the same time step have it
\* false.  While the Read of the invocation waits the operator may do one of
\* acts.  What the Read returned is kept in the history polled.
Calculate(n, acts) ==
    /\ run = "ok"
    /\ Initialised
    /\ finalised = {}
    /\ \E NewTimeStep \in {n \notin called} :
       \E w \in IF Polls(n, NewTimeStep) THEN Waited(window, acts) ELSE {window} :
       \E out \in {CalculateOutcome(n, NewTimeStep, time, self[n], Workspace,
                                   Position[n], w)} :
           /\ self' = [self EXCEPT ![n] = out.self]
           /\ Workspace' = out.Workspace
           /\ Position' = [Position EXCEPT ![n] = out.Position]
           /\ window' = out.window
           /\ run' = out.run
           /\ info' = [call |-> "Calculate", Name |-> n, NewTimeStep |-> NewTimeStep]
           /\ polled' = IF Polls(n, NewTimeStep)
                        THEN [event  |-> Read(w).event,
                              values |-> Read(w).values,
                              before |-> called]
                        ELSE polled
    /\ called' = called \cup {n}
    /\ UNCHANGED <<globals, General, time, finalised>>

\* The host moves to the next time step once every object was calculated,
\* until the simulation ends.
NextTimeStep ==
    /\ run = "ok"
    /\ Initialised
    /\ finalised = {}
    /\ called = Objects
    /\ time < StartTime + MaxActive * General.ticks
    /\ time' = time + General.ticks
    /\ called' = {}
    /\ UNCHANGED <<globals, General, self, Workspace, Position, window, finalised,
                   run, info, track, polled>>

----------------------------------------------------------------------------
(* Finalise *)

\* Line 121: self.window.close(); an instance without the attribute raises.
Finalise(n) ==
    /\ run = "ok"
    /\ Initialised
    /\ n \notin finalised
    /\ IF HasAttr(self[n], "window")
       THEN /\ window' = Closed(window)
            /\ run' = run
       ELSE /\ window' = window
            /\ run' = "error"
    /\ finalised' = finalised \cup {n}
    /\ info' = [call |-> "Finalise", Name |-> n, NewTimeStep |-> FALSE]
    /\ UNCHANGED <<globals, General, self, Workspace, Position, time, called,
                   track, polled>>

----------------------------------------------------------------------------
(* The program under its host and operator *)

Next ==
    \/ \E n \in Objects : Initialise(n)
    \/ \E n \in Objects : Calculate(n, Acts) /\ UNCHANGED track
    \/ NextTimeStep
    \/ \E key \in {"cam", "support"} : \E v \in SliderValues(key) : MoveSlider(key, v)
    \/ ExitEvent
    \/ CloseWindow
    \/ \E n \in Objects : Finalise(n)

Spec == Init /\ [][Next]_vars

\* The same program in a model where a third object, of another name, has
\* the external function too.
OtherSpec == InitWith(Names \cup {OtherName}, TimeSteps) /\ [][Next]_vars

\* The program in a model with the coarse time step.
CoarseSpec == InitWith(Names, {CoarseTimeStep}) /\ [][Next]_vars

----------------------------------------------------------------------------
(* The same program with the history of the steps towards a constant target: *)
(* the operator sets the sliders before StartTime and leaves them alone.     *)

\* The least n with n * r >= d, counted from n with acc = n * r; no more
\* than MaxCount + 1
RECURSIVE CeilFrom(_, _, _, _)
CeilFrom(d, r, n, acc) ==
    IF FLeq(d, acc) \/ n > MaxCount THEN n
    ELSE CeilFrom(d, r, n + 1, ExactAdd(acc, r))

\* ceil(d / r) for d >= 0 and r > 0, as real numbers
Ceil(d, r) == CeilFrom(d, r, 0, FZero)

\* The history after an active new-step Calculate that went from instance
\* old to instance new, from the position last to pos: the steps taken since
\* the target last changed, the distance before the first of them, and whether
\* the position has been within RateStep of the target before or after any
\* of them.  The distances are those of the real numbers.
Count(t, old, new, last, pos) ==
    LET e    == FAbs(ExactSub(last, new.TargetOffset))
        near == \/ FLeq(e, new.RateStep)
                \/ FLeq(FAbs(ExactSub(pos, new.TargetOffset)), new.RateStep)
    IN  IF t.steps = 0 \/ old.TargetOffset # new.TargetOffset
        THEN [steps |-> 1, first |-> e, within |-> near]
        ELSE [steps  |-> IF t.steps < MaxCount THEN t.steps + 1 ELSE t.steps,
              first  |-> t.first,
              within |-> t.within \/ near]

\* What the operator does while a Read waits: nothing from StartTime on
QuietActs == IF time < StartTime THEN {"move"} ELSE {}

Tracked(n) ==
    /\ Calculate(n, QuietActs)
    /\ track' = IF n \notin called /\ run' = "ok" /\ ~BeforeStart(self'[n], time)
                THEN [track EXCEPT ![n] = Count(@, self[n], self'[n],
                                                Position[n], Position'[n])]
                ELSE track

QuietNext ==
    \/ \E n \in Objects : Initialise(n)
    \/ \E n \in Objects : Tracked(n)
    \/ NextTimeStep
    \/ \E key \in {"cam", "support"} : \E v \in SliderValues(key) :
          time < StartTime /\ MoveSlider(key, v)

QuietSpec == Init /\ [][QuietNext]_vars

\* The host's call of Initialise of n, as the step shows in info
InitialiseCall(n) ==
    /\ run = "ok"
    /\ ~HasAttr(self[n], "StartTime")
    /\ info' = [call |-> "Initialise", Name |-> n, NewTimeStep |-> FALSE]

\* The host's call of Calculate of n for a new time step, as the step shows
\* in called
NewStepCall(n) ==
    /\ run = "ok"
    /\ Initialised
    /\ finalised = {}
    /\ n \notin called
    /\ called' = called \cup {n}

\* The host initialises every object, then keeps calculating every object
\* and stepping the time.
Fairness ==
    /\ WF_info(\E n \in Objects : InitialiseCall(n))
    /\ WF_called(\E n \in Objects : NewStepCall(n))
    /\ WF_vars(NextTimeStep)

\* The hosts that bind the name OrcFxAPI
Bound == {h \in Hosts : "OrcFxAPI" \in h}

BoundInit == InitIn(Bound, Names, TimeSteps, Starts)

FairQuietSpec == BoundInit /\ [][QuietNext]_vars /\ Fairness

\* The same, with the structures placed at 0, at MaxStart or as far out as
\* the highest value the support slider takes here.
FarStarts == Starts \cup {SliderValue("support", MaxSlider)}

FarInit == InitIn(Bound, Names, TimeSteps, FarStarts)

FairFarSpec == FarInit /\ [][QuietNext]_vars /\ Fairness

----------------------------------------------------------------------------
(* Properties *)

\* Instance n has taken an active new-step Calculate: lines 104-116 ran.
Stepped(n) == HasAttr(self[n], "PositionLast")

\* |x - y| as a real number
Distance(x, y) == FAbs(ExactSub(x, y))

\* The sign of x - y as a real number
Side(x, y) == FSign(ExactSub(x, y))

\* The last active step of n was taken from more than RateStep away, as
\* line 108 finds it.
FullStep(n) == Stepped(n) /\ FLess(self[n].RateStep, FAbs(self[n].PositionError))

\* The rate-limited step of n was rounded: PositionLast -/+ RateStep is
\* no double.
RoundedStep(n) ==
    /\ FullStep(n)
    /\ Position[n] # ExactSub(self[n].PositionLast,
                              FTimesSign(self[n].RateStep, self[n].ErrorDir))

\* The difference of x and y is at most r, taken as a real number or
\* computed as the float abs(x - y)
AtMostApart(x, y, r) == FLeq(Distance(x, y), r) \/ FLeq(FAbs(FSub(x, y)), r)

\* C1 as claimed: for either role, the position written by an active new-step
\* Calculate differs from the position it read (PositionLast) by at most
\* RateStep.
C1_RateCap ==
    \A n \in Names :
        Stepped(n) => AtMostApart(Position[n], self[n].PositionLast, self[n].RateStep)

\* C1 as amended: for either role, the position written by an active new-step
\* Calculate lies between the doubles nearest to PositionLast - RateStep and
\* to PositionLast + RateStep: it differs from the position read by at most
\* RateStep and the rounding of one subtraction.
C1_RateCapRounded ==
    \A n \in Names :
        Stepped(n) =>
            /\ FLeq(FSub(self[n].PositionLast, self[n].RateStep), Position[n])
            /\ FLeq(Position[n], FAdd(self[n].PositionLast, self[n].RateStep))

\* Both roles have moved in their last active step, the support upwards
\* and the cam by a full step that was rounded to more than RateStep.
C1_Witness ==
    /\ \A n \in Names : Stepped(n) /\ Position[n] # self[n].PositionLast
    /\ FullStep(OffsetMaster)
    /\ ~AtMostApart(Position[OffsetMaster], self[OffsetMaster].PositionLast,
                    self[OffsetMaster].RateStep)

\* C2: for the cam role, an active new-step Calculate that reads a position
\* within RateStep of the target writes exactly the target.
C2_SnapToTarget ==
    LET o == self[OffsetMaster]
    IN  (Stepped(OffsetMaster) /\ FLeq(Distance(o.PositionLast, o.TargetOffset), o.RateStep))
            => Position[OffsetMaster] = o.TargetOffset

\* C3: for either role, the position written by an active new-step Calculate
\* lies between the position read and the target, both included.
C3_BetweenLastAndTarget ==
    \A n \in Names :
        Stepped(n) =>
            LET last   == self[n].PositionLast
                target == self[n].TargetOffset
            IN  \/ FLeq(last, Position[n]) /\ FLeq(Position[n], target)
                \/ FLeq(target, Position[n]) /\ FLeq(Position[n], last)

\* The cam is at the target of its instance.
CamAtTarget ==
    /\ HasAttr(self[OffsetMaster], "TargetOffset")
    /\ Position[OffsetMaster] = self[OffsetMaster].TargetOffset

\* C4: for the cam role, with the target constant once the operator has set
\* the sliders and Calculate invoked again and again, the position eventually
\* equals the target and stays equal to it.
C4_ReachesAndHolds == <>[]CamAtTarget

\* C5 as claimed: for either role, an active new-step Calculate that reads a
\* position more than RateStep from the target moves it exactly RateStep
\* towards the target: the distance shrinks by exactly RateStep, taken as a
\* real number or computed in floats, and the error keeps its sign.
C5_FullStep ==
    \A n \in Names :
        FullStep(n) =>
            LET o == self[n]
                s == Side(o.PositionLast, o.TargetOffset)
            IN  /\ Position[n] = FSub(o.PositionLast, FTimesSign(o.RateStep, s))
                /\ \/ Distance(Position[n], o.TargetOffset)
                        = ExactSub(Distance(o.PositionLast, o.TargetOffset), o.RateStep)
                   \/ FAbs(FSub(Position[n], o.TargetOffset))
                        = FSub(FAbs(FSub(o.PositionLast, o.TargetOffset)), o.RateStep)
                /\ Side(Position[n], o.TargetOffset) = s

\* C5 as amended: for either role, an active new-step Calculate that computes
\* an error of more than RateStep writes the double nearest to
\* current - RateStep * sign(current - target): the distance to the target
\* shrinks and the position does not pass the target.
C5_FullStepRounded ==
    \A n \in Names :
        FullStep(n) =>
            LET o == self[n]
                s == Side(o.PositionLast, o.TargetOffset)
            IN  /\ Position[n] = FSub(o.PositionLast, FTimesSign(o.RateStep, s))
                /\ FLess(Distance(Position[n], o.TargetOffset),
                         Distance(o.PositionLast, o.TargetOffset))
                /\ Side(Position[n], o.TargetOffset) \in {s, 0}

\* The cam has taken a full step upwards and the support one downwards, and
\* the step of one of them was rounded.
C5_Witness ==
    /\ \A n \in Names : FullStep(n)
    /\ self[OffsetMaster].ErrorDir = -1
    /\ self[SupportMaster].ErrorDir = 1
    /\ \E n \in Names : RoundedStep(n)

\* C6: for either role, with a constant target and RateStep > 0, the position
\* is within RateStep of the target before or after one of the first
\* ceil(|first error| / RateStep) active steps, and no step taken from more
\* than RateStep away ends on the other side of the target.
C6_WithinAfterCeilSteps ==
    \A n \in Names :
        /\ (track[n].steps >= 1 /\ FLess(FZero, self[n].RateStep)
              /\ track[n].steps >= Ceil(track[n].first, self[n].RateStep))
               => track[n].within
        /\ FullStep(n)
               => Side(Position[n], self[n].TargetOffset) \in {self[n].ErrorDir, 0}

\* Both roles started more than two steps from their target and have taken
\* as many steps as the bound allows.
C6_Witness ==
    \A n \in Names :
        /\ Stepped(n)
        /\ FLess(ExactAdd(self[n].RateStep, self[n].RateStep), track[n].first)
        /\ track[n].steps = Ceil(track[n].first, self[n].RateStep)
        /\ track[n].within

\* C7: for the support role, an active new-step Calculate that reads a
\* position within RateStep of the target writes that position back.
C7_Hold ==
    LET o == self[SupportMaster]
    IN  (Stepped(SupportMaster) /\ FLeq(Distance(o.PositionLast, o.TargetOffset), o.RateStep))
            => Position[SupportMaster] = o.PositionLast

\* The support read a position within RateStep of the target but not on it.
C7_Witness ==
    LET o == self[SupportMaster]
    IN  /\ Stepped(SupportMaster)
        /\ o.PositionLast # o.TargetOffset
        /\ FLeq(Distance(o.PositionLast, o.TargetOffset), o.RateStep)

\* C8: a Calculate with NewTimeStep false changes neither the instance, the
\* workspace, the position nor the window (no Read), and does not end the run.
C8_NoOpWhenNotNewTimeStep ==
    [][\A n \in Names :
          ((Calculate(n, Acts) /\ UNCHANGED track) /\ n \in called)
              => UNCHANGED <<self, Workspace, Position, window, run, polled>>]_vars

\* The last invocation was a Calculate of the cam with NewTimeStep false,
\* after StartTime, with the cam away from its target and an event waiting.
C8_Witness ==
    /\ info = [call |-> "Calculate", Name |-> OffsetMaster, NewTimeStep |-> FALSE]
    /\ time >= StartTime
    /\ Position[OffsetMaster] # self[OffsetMaster].TargetOffset
    /\ window.events # <<>>

\* C9: for either role, a new-step Calculate with SimulationTime < StartTime
\* leaves the position unchanged.
C9_IdleBeforeStartTime ==
    [][\A n \in Names :
          ((Calculate(n, Acts) /\ UNCHANGED track) /\ n \notin called /\ time < StartTime)
              => Position' = Position]_vars

\* Before StartTime both roles have been calculated in this time step, the
\* cam polled a slider event, and the target it set differs from the position.
C9_Witness ==
    /\ time < StartTime
    /\ called = Names
    /\ polled.event \in {"cam", "support"}
    /\ \E n \in Names : self[n].TargetOffset # Position[n]

\* The host calls Calculate of the cam for a new time step: the call that polls.
CamPoll == Calculate(OffsetMaster, Acts) /\ OffsetMaster \notin called

\* C10: when the Read of the cam's new-step Calculate returns None or 'Exit',
\* that invocation ends the run and writes neither the workspace, the
\* instance nor the position; once the run has ended no position changes.
C10_ExitEndsRun ==
    [][/\ (CamPoll /\ UNCHANGED track /\ polled'.event \in {"None", "Exit"})
           => (run' = "exit" /\ UNCHANGED <<Workspace, self, Position>>)
       /\ run = "exit" => Position' = Position]_vars

\* The run ended after StartTime while the cam was away from its target.
C10_Witness ==
    /\ run = "exit"
    /\ time >= StartTime
    /\ Position[OffsetMaster] # self[OffsetMaster].TargetOffset

\* C11: Finalise completes without error for either instance, the support
\* instance included, whatever the state of the window.
C11_FinaliseCompletes ==
    \A n \in Names : n \in finalised => run # "error"

\* C12: Initialise for an object whose name is neither role's ends in an
\* error; it does not complete and leave an instance for Calculate to run on.
C12_UnknownNameFailsAtInitialise ==
    \A n \in Objects \ Names : HasAttr(self[n], "StartTime") => run = "error"

\* The instances that hold a window
Owners == {n \in Objects : HasAttr(self[n], "window")}

\* The object whose Initialise ran first, in a state where the last
\* invocation was the second Initialise.
FirstInitialised == CHOOSE n \in Names : n # info.Name

\* C13 as claimed: after both Initialise calls one window exists and the
\* instance initialised first owns it.
C13_FirstInitialisedOwnsWindow ==
    (Initialised /\ info.call = "Initialise")
        => (window.state # "none" /\ Owners = {FirstInitialised})

\* C13 as amended: after both Initialise calls, in either order, one window
\* exists and the cam instance owns it.
C13_CamOwnsWindow ==
    Initialised => (window.state # "none" /\ Owners = {OffsetMaster})

\* Both objects are initialised, the support first and the cam last.
C13_Witness ==
    /\ Initialised
    /\ info = [call |-> "Initialise", Name |-> OffsetMaster, NewTimeStep |-> FALSE]
    /\ Owners = {OffsetMaster}

\* In this time step the cam was calculated first, its Read returned a
\* 'support' event, and the support was calculated after it.
SupportEventThisStep ==
    /\ run = "ok"
    /\ Names \subseteq called
    /\ SupportMaster \notin polled.before
    /\ polled.event = "support"

\* C14: with the cam calculated before the support in a time step, the value
\* of a 'support' event the cam polled in that step is the target the support
\* uses in the same step, and from StartTime on in its position error.
C14_SameStepTarget ==
    SupportEventThisStep =>
        LET o == self[SupportMaster]
        IN  /\ o.TargetOffset = polled.values["support"]
            /\ time >= StartTime =>
                  /\ Stepped(SupportMaster)
                  /\ o.PositionError = FSub(o.PositionLast, polled.values["support"])

\* From StartTime on, the support has moved towards the value polled in the
\* same step.
C14_Witness ==
    /\ SupportEventThisStep
    /\ time >= StartTime
    /\ polled.values["support"] # FZero
    /\ Position[SupportMaster] # self[SupportMaster].PositionLast

\* C15: Initialise sets the role's own workspace target to 0; a poll that
\* times out leaves both workspace targets unchanged and the step goes on, a
\* 'cam' event overwrites only 'camdata', a 'support' event overwrites only
\* 'supportdata', and nothing but a poll changes the workspace afterwards.
C15_WorkspaceFrame ==
    [][/\ (Initialise(OffsetMaster) /\ run' = "ok") => Workspace'["camdata"] = FZero
       /\ (Initialise(SupportMaster) /\ run' = "ok") => Workspace'["supportdata"] = FZero
       /\ CamPoll =>
             /\ polled'.event = "__TIMEOUT__" =>
                   /\ Workspace' = Workspace
                   /\ run' = "ok"
                   /\ self'[OffsetMaster].TargetOffsetScale = Workspace["camdata"]
             /\ polled'.event = "cam" =>
                   Workspace' = [Workspace EXCEPT !["camdata"] = polled'.values["cam"]]
             /\ polled'.event = "support" =>
                   Workspace' = [Workspace EXCEPT !["supportdata"] = polled'.values["support"]]
       /\ (~CamPoll /\ \A n \in Names : ~Initialise(n)) => Workspace' = Workspace]_vars

\* The last invocation polled; a 'cam' event has overwritten 'camdata' while
\* 'supportdata' still holds its initial 0.
C15_Witness ==
    /\ info = [call |-> "Calculate", Name |-> OffsetMaster, NewTimeStep |-> TRUE]
    /\ run = "ok"
    /\ polled.event = "cam"
    /\ Workspace["camdata"] # FZero
    /\ Workspace["camdata"] = window.values["cam"]
    /\ Workspace["supportdata"] = FZero

\* C16: before StartTime a new-step Calculate of the cam still polls, and a
\* new-step Calculate of either role still refreshes its target from the
\* workspace (cam: camdata / 1000, support: supportdata as it is) and leaves
\* the position alone; the first step from StartTime on takes its error from
\* the workspace value of that moment.
C16_IdleRefresh ==
    [][/\ (CamPoll /\ time < StartTime) =>
             \E w \in Waited(window, Acts) :
                 /\ window' = Read(w).window
                 /\ polled' = [event  |-> Read(w).event,
                               values |-> Read(w).values,
                               before |-> called]
       /\ \A n \in Names :
             (Calculate(n, Acts) /\ n \notin called /\ run' = "ok") =>
                 LET key    == IF n = OffsetMaster THEN "camdata" ELSE "supportdata"
                     target == IF n = OffsetMaster
                               THEN Div1000(Workspace'[key])
                               ELSE Workspace'[key]
                 IN  /\ time < StartTime =>
                           /\ self'[n].TargetOffsetScale = Workspace'[key]
                           /\ self'[n].TargetOffset = target
                           /\ Position' = Position
                           /\ n = SupportMaster => window' = window
                     /\ time >= StartTime =>
                           self'[n].PositionError = FSub(Position[n], target)]_vars

\* Before StartTime the support was calculated for a new time step and holds
\* a target the operator set, while its position is where it was.
C16_Witness ==
    /\ time < StartTime
    /\ info = [call |-> "Calculate", Name |-> SupportMaster, NewTimeStep |-> TRUE]
    /\ self[SupportMaster].TargetOffset # FZero
    /\ self[SupportMaster].TargetOffset = window.values["support"]
    /\ ~Stepped(SupportMaster)

\* C17: for either role, a new-step Calculate from StartTime on that finds the
\* position equal to the target has error 0 and direction 0 and writes the
\* same position back.
C17_TargetFixedPoint ==
    [][\A n \in Names :
          (/\ Calculate(n, Acts)
           /\ n \notin called
           /\ time >= StartTime
           /\ run' = "ok"
           /\ self'[n].TargetOffset = Position[n])
          => /\ self'[n].PositionError = FZero
             /\ self'[n].ErrorDir = 0
             /\ Position'[n] = Position[n]]_vars

\* From StartTime on both roles have been calculated in this time step, each
\* with its position at its target.
C17_Witness ==
    /\ time >= StartTime
    /\ called = Names
    /\ \A n \in Names :
          /\ Stepped(n)
          /\ self[n].PositionError = FZero
          /\ Position[n] = self[n].TargetOffset

\* The slider bounds of the role in metres (lines 32-33, 38-40, 47-49).
InBounds(n, pos) ==
    IF n = OffsetMaster
    THEN FLeq(Div1000(ScaleMin[1]), pos) /\ FLeq(pos, Div1000(ScaleMax[1]))
    ELSE FLeq(ScaleMin[2], pos) /\ FLeq(pos, ScaleMax[2])

\* C18: with the initial positions and every slider value inside the role's
\* bounds, the position of either role stays inside them.
C18_PositionInBounds ==
    \A n \in Names : InBounds(n, Position[n])

\* The support stands still within RateStep of the target of its instance.
SupportSettled ==
    /\ Stepped(SupportMaster)
    /\ Position[SupportMaster] = self[SupportMaster].PositionLast
    /\ FLeq(Distance(Position[SupportMaster], self[SupportMaster].TargetOffset),
            self[SupportMaster].RateStep)

\* C19: for the support role, with the target constant once the operator
\* has set the sliders and Calculate invoked again and again, from a start
\* below, at or above the target, the position eventually stops changing and
\* stays where it is, within RateStep of the target.
C19_SupportSettles == <>[]SupportSettled

\* The support has come down by more than one full step and stands still,
\* above its target and within RateStep of it.
C19_Witness ==
    /\ SupportSettled
    /\ track[SupportMaster].steps > 2
    /\ FLess(self[SupportMaster].TargetOffset, Position[SupportMaster])
    /\ FLess(ExactAdd(self[SupportMaster].RateStep, self[SupportMaster].RateStep),
             track[SupportMaster].first)

====
